---- MODULE Spec2Model ----
(***************************************************************************)
(* iTIP scheduling: itip_cancel (event_cancel.rs) and itip_update          *)
(* (event_update.rs).  Both are synchronous functions over parsed          *)
(* iCalendar objects; the state machine applies them to objects drawn from *)
(* a bounded family and records what they returned.                        *)
(*                                                                         *)
(* Options are modelled as sequences of length 0 or 1: <<>> is None and    *)
(* <<v>> is Some(v).  A Result is a record [err, msgs]: err = "" is Ok.    *)
(* Component indices (component_ids) are the 0-based indices of the code;  *)
(* component k of a message body is message[k + 1].                        *)
(***************************************************************************)
EXTENDS Integers, Sequences, FiniteSets, TLC

VARIABLES old_ical, ical, last, emitted, pc, ops

vars == <<old_ical, ical, last, emitted, pc, ops>>

\* Highest SEQUENCE value an input object carries.
MaxSeq == 1

\* Number of operations applied in a row to one stored object (SpecSeq).
MaxOps == 2

----------------------------------------------------------------------------
\* The bounded family of calendar objects.

\* account_emails: the addresses of the local account.
AccountEmails == {"a@local"}

InstanceIds == {"Main", "R1"}

OptSequences == {<<>>} \cup {<<n>> : n \in 0..MaxSeq}

\* ATTENDEE lines: the local account with either participation status, one
\* remote attendee that takes updates, one remote attendee with RSVP=FALSE.
AttendeePool ==
    { [email |-> "a@local",  rsvp |-> TRUE,  part_stat |-> "NEEDS-ACTION"],
      [email |-> "a@local",  rsvp |-> TRUE,  part_stat |-> "ACCEPTED"],
      [email |-> "b@remote", rsvp |-> TRUE,  part_stat |-> "NEEDS-ACTION"],
      [email |-> "c@remote", rsvp |-> FALSE, part_stat |-> "NEEDS-ACTION"] }

\* Attendee lists of one component: at most two lines, one line per address.
AttendeeSets ==
    { s \in SUBSET AttendeePool :
        /\ Cardinality(s) <= 2
        /\ \A x \in s, y \in s : x.email = y.email => x = y }

Components == [sequence : OptSequences, attendees : AttendeeSets]

Plain(org) ==
    [component_type |-> "VEvent", organizer |-> org, schedule_agent |-> "SERVER",
     wellformed |-> TRUE, timezones |-> <<>>]

\* Headers of objects that carry scheduling information the server acts on:
\* a VEVENT or a VFREEBUSY of a local or of a remote organizer, with or
\* without a time zone.
SoundHeaders ==
    UNION { { Plain(<<o>>),
              [Plain(<<o>>) EXCEPT !.component_type = "VFreebusy"],
              [Plain(<<o>>) EXCEPT !.timezones = <<"tz">>] }
            : o \in {"a@local", "b@remote"} }

\* Headers of objects with no ORGANIZER, with SCHEDULE-AGENT=CLIENT, or
\* structurally broken.
UnsoundHeaders ==
    {Plain(<<>>)} \cup
    UNION { { [Plain(<<o>>) EXCEPT !.schedule_agent = "CLIENT"],
              [Plain(<<o>>) EXCEPT !.wellformed = FALSE] }
            : o \in {"a@local", "b@remote"} }

MkObject(h, c) ==
    [component_type |-> h.component_type, organizer |-> h.organizer,
     schedule_agent |-> h.schedule_agent, wellformed |-> h.wellformed,
     timezones |-> h.timezones, comps |-> c]

\* Components of a stored object: nobody has answered yet.
StoredComponents ==
    [ sequence : OptSequences,
      attendees : { s \in AttendeeSets : \A x \in s : x.part_stat = "NEEDS-ACTION" } ]

\* The stored objects the operations are applied to: a main component, with
\* or without one recurrence override.
Objects ==
    { MkObject(h, c) : h \in SoundHeaders,
                       c \in [{"Main"} -> StoredComponents]
                             \cup [{"Main", "R1"} -> StoredComponents] }
    \cup { MkObject(h, c) : h \in UnsoundHeaders, c \in [{"Main"} -> StoredComponents] }

\* The edits of one stored object a client can submit as its new revision:
\* the same content, another organizer, another header property, or one
\* component changed (its attendee list or its sequence), added or removed.
Variants(o) ==
    {o}
    \cup { [o EXCEPT !.organizer = g] : g \in {<<>>, <<"a@local">>, <<"b@remote">>} }
    \cup { [o EXCEPT !.schedule_agent = "CLIENT"], [o EXCEPT !.wellformed = FALSE] }
    \cup UNION { { [o EXCEPT !.comps[i].attendees = s] : s \in AttendeeSets }
                 \cup { [o EXCEPT !.comps[i].sequence = q] : q \in OptSequences }
                 \cup { [o EXCEPT !.comps = [k \in DOMAIN o.comps \ {i} |-> o.comps[k]]] }
                 : i \in DOMAIN o.comps }
    \cup UNION { { [o EXCEPT !.comps = [k \in DOMAIN o.comps \cup {i} |->
                                          IF k = i THEN c ELSE o.comps[k]]]
                   : c \in Components }
                 : i \in InstanceIds \ DOMAIN o.comps }

\* The iteration orders of a map keyed by instance id.
Orders(d) ==
    { f \in [1..Cardinality(d) -> d] : \A i, j \in DOMAIN f : f[i] = f[j] => i = j }

unwrap_or_default(opt) == IF opt = <<>> THEN 0 ELSE opt[1]

Ok(msgs) == [err |-> "", msgs |-> msgs]

Err(e) == [err |-> e, msgs |-> <<>>]

----------------------------------------------------------------------------
\* Snapshot builder.

Email(e) == [email |-> e, is_local |-> e \in AccountEmails]

\* Send-update eligibility of a participant: true unless RSVP is declined.
send_update_messages(attendee) == attendee.rsvp

SnapshotComponents(o) ==
    [ i \in DOMAIN o.comps |->
        [ component_type |-> o.component_type,
          sequence |-> o.comps[i].sequence,
          attendees |-> { [email |-> Email(x.email), rsvp |-> x.rsvp,
                           part_stat |-> x.part_stat] : x \in o.comps[i].attendees } ] ]

HasLocalAttendee(o) ==
    \E i \in DOMAIN o.comps : \E x \in o.comps[i].attendees : x.email \in AccountEmails

\* itip_snapshot(ical, account_emails, false): the snapshot, or the error.
itip_snapshot(o) ==
    IF ~o.wellformed THEN [err |-> "Malformed"]
    ELSE IF \/ o.organizer = <<>>
            \/ "Main" \notin DOMAIN o.comps
            \/ \A i \in DOMAIN o.comps : o.comps[i].attendees = {}
         THEN [err |-> "NoSchedulingInfo"]
    ELSE IF o.organizer[1] \notin AccountEmails /\ ~HasLocalAttendee(o)
         THEN [err |-> "NotOrganizerNorAttendee"]
    ELSE IF o.schedule_agent # "SERVER" THEN [err |-> "OtherSchedulingAgent"]
    ELSE [err |-> "", organizer |-> [email |-> Email(o.organizer[1])],
          components |-> SnapshotComponents(o)]

----------------------------------------------------------------------------
\* Message builder and attendee decline.

itip_build_envelope(method) ==
    [component_type |-> "VCalendar", method |-> method, component_ids |-> <<>>]

\* itip_add_tz(message, ical): the VTIMEZONE components of the source object
\* are attached after the components already in the message.
RECURSIVE itip_add_tz(_, _)
itip_add_tz(message, tzs) ==
    IF tzs = <<>> THEN message
    ELSE itip_add_tz(Append(message, [component_type |-> "VTimezone", tzid |-> Head(tzs),
                                      component_ids |-> <<>>]),
                     Tail(tzs))

\* attendee_decline(instance_id, itip, comp, dt_stamp, email_rcpt): a
\* component declining the instance for the local attendee, with that
\* attendee's address; None when the instance has no local attendee.
attendee_decline(instance_id, itip, comp, email_rcpt) ==
    LET locals == { x \in comp.attendees : x.email.is_local } IN
    IF locals = {} THEN <<>>
    ELSE LET attendee == CHOOSE x \in locals : TRUE IN
         << [ cancel_comp |-> [ component_type |-> comp.component_type,
                                instance_id |-> instance_id,
                                sequence |-> unwrap_or_default(comp.sequence),
                                organizer |-> itip.organizer.email.email,
                                attendee |-> attendee.email.email,
                                part_stat |-> "DECLINED",
                                component_ids |-> <<>> ],
              attendee_email |-> attendee.email,
              email_rcpt |-> email_rcpt ] >>

----------------------------------------------------------------------------
\* itip_cancel.

build_cancel_component(component_type, itip, sequence, cancel_guests) ==
    [ component_type |-> component_type,
      status |-> "CANCELLED",
      sequence |-> sequence,
      organizer |-> itip.organizer.email.email,
      attendees |-> { g.email : g \in cancel_guests },
      component_ids |-> <<>> ]

\* State of the organizer's loop before the first component.
CancelLoopInit ==
    [recipients |-> {}, cancel_guests |-> {}, component_type |-> "VEvent", sequence |-> 0]

CancelRecipients_AllGuests(acc, comp) ==
    acc.recipients \cup { x.email.email : x \in comp.attendees }

\* Recipients after one component: the attendees that take update messages.
CancelRecipients(acc, comp) ==
    acc.recipients \cup
        { x.email.email : x \in { y \in comp.attendees : send_update_messages(y) } }

\* Sequence after one component: the main instance's sequence plus one.
CancelSequence(acc, instance_id, comp) ==
    IF instance_id = "Main" THEN unwrap_or_default(comp.sequence) + 1 ELSE acc.sequence

\* One iteration of the organizer's loop over itip.components.
CancelLoopStep(acc, instance_id, comp) ==
    [ component_type |-> comp.component_type,
      recipients |-> CancelRecipients(acc, comp),
      cancel_guests |-> acc.cancel_guests \cup { x.email : x \in comp.attendees },
      sequence |-> CancelSequence(acc, instance_id, comp) ]

RECURSIVE CancelLoop(_, _, _, _)
CancelLoop(itip, order, k, acc) ==
    IF k > Len(order) THEN acc
    ELSE CancelLoop(itip, order, k + 1,
                    CancelLoopStep(acc, order[k], itip.components[order[k]]))

CancelOutcome_AnyType(itip, loop) ==
    IF loop.recipients # {}
    THEN Ok(<< [ to |-> loop.recipients, summary |-> "Cancel",
                 from |-> itip.organizer.email.email, from_organizer |-> TRUE,
                 message |-> << [itip_build_envelope("CANCEL") EXCEPT !.component_ids = <<1>>],
                                build_cancel_component(loop.component_type, itip,
                                    loop.sequence, loop.cancel_guests) >> ] >>)
    ELSE Err("NothingToSend")

CancelOutcome_NotFromOrganizer(itip, loop) ==
    IF loop.recipients # {} /\ loop.component_type # "VFreebusy"
    THEN Ok(<< [ to |-> loop.recipients, summary |-> "Cancel",
                 from |-> itip.organizer.email.email, from_organizer |-> FALSE,
                 message |-> << [itip_build_envelope("CANCEL") EXCEPT !.component_ids = <<1>>],
                                build_cancel_component(loop.component_type, itip,
                                    loop.sequence, loop.cancel_guests) >> ] >>)
    ELSE Err("NothingToSend")

\* The organizer's result once the loop is done.
CancelOutcome(itip, loop) ==
    IF loop.recipients # {} /\ loop.component_type # "VFreebusy"
    THEN Ok(<< [ to |-> loop.recipients, summary |-> "Cancel",
                 from |-> itip.organizer.email.email, from_organizer |-> TRUE,
                 message |-> << [itip_build_envelope("CANCEL") EXCEPT !.component_ids = <<1>>],
                                build_cancel_component(loop.component_type, itip,
                                    loop.sequence, loop.cancel_guests) >> ] >>)
    ELSE Err("NothingToSend")

\* State of the attendee's loop before the first component.
DeclineLoopInit ==
    [message |-> <<itip_build_envelope("REPLY")>>, mail_from |-> <<>>, email_rcpt |-> {}]

DeclineLoopStep_MainOnly(acc, instance_id, itip, comp) ==
    LET d == IF instance_id = "Main"
             THEN attendee_decline(instance_id, itip, comp, acc.email_rcpt) ELSE <<>> IN
    IF d = <<>> THEN acc
    ELSE LET comp_id == Len(acc.message) IN
         [ message |-> Append([acc.message EXCEPT ![1].component_ids = Append(@, comp_id)],
                              d[1].cancel_comp),
           mail_from |-> <<d[1].attendee_email.email>>,
           email_rcpt |-> d[1].email_rcpt ]

DeclineLoopStep_IdAfterPush(acc, instance_id, itip, comp) ==
    LET d == attendee_decline(instance_id, itip, comp, acc.email_rcpt) IN
    IF d = <<>> THEN acc
    ELSE LET comp_id == Len(acc.message) + 1 IN
         [ message |-> Append([acc.message EXCEPT ![1].component_ids = Append(@, comp_id)],
                              d[1].cancel_comp),
           mail_from |-> <<d[1].attendee_email.email>>,
           email_rcpt |-> d[1].email_rcpt ]

\* One iteration of the attendee's loop over itip.components.
DeclineLoopStep(acc, instance_id, itip, comp) ==
    LET d == attendee_decline(instance_id, itip, comp, acc.email_rcpt) IN
    IF d = <<>> THEN acc
    ELSE LET comp_id == Len(acc.message) IN
         [ message |-> Append([acc.message EXCEPT ![1].component_ids = Append(@, comp_id)],
                              d[1].cancel_comp),
           mail_from |-> <<d[1].attendee_email.email>>,
           email_rcpt |-> d[1].email_rcpt ]

RECURSIVE DeclineLoop(_, _, _, _)
DeclineLoop(itip, order, k, acc) ==
    IF k > Len(order) THEN acc
    ELSE DeclineLoop(itip, order, k + 1,
                     DeclineLoopStep(acc, order[k], itip, itip.components[order[k]]))

\* The attendee's result once the loop is done.
DeclineOutcome(obj, itip, loop) ==
    IF loop.mail_from # <<>>
    THEN Ok(<< [ from |-> loop.mail_from[1], from_organizer |-> FALSE,
                 to |-> loop.email_rcpt \cup {itip.organizer.email.email},
                 summary |-> [rsvp |-> "DECLINED"],
                 message |-> itip_add_tz(loop.message, obj.timezones) ] >>)
    ELSE Err("NothingToSend")

\* itip_cancel(ical, account_emails); `order` is the order in which
\* itip.components is iterated.
itip_cancel(obj, order) ==
    LET itip == itip_snapshot(obj) IN
    IF itip.err # "" THEN Err(itip.err)
    ELSE IF itip.organizer.email.is_local
         THEN CancelOutcome(itip, CancelLoop(itip, order, 1, CancelLoopInit))
         ELSE DeclineOutcome(obj, itip, DeclineLoop(itip, order, 1, DeclineLoopInit))

----------------------------------------------------------------------------
\* Organizer workflow, attendee workflow and finalizer.

AttendeeEmails(comp) == { x.email.email : x \in comp.attendees }

\* The instances of a set in the order main, override.
InstanceSeq(S) == SelectSeq(<<"Main", "R1">>, LAMBDA i : i \in S)

Envelope(method, n) ==
    [itip_build_envelope(method) EXCEPT !.component_ids = [k \in 1..n |-> k]]

\* organizer_handle_update(old_ical, ical, old_itip, new_itip, &mut sequences):
\* an instance that is added or whose attendee set changed is touched; its
\* sequence is requested to be bumped and a REQUEST carries it to the
\* current attendees; dropped attendees receive a CANCEL, sent first.
organizer_handle_update(old_obj, new_obj, old_itip, new_itip) ==
    LET oldc == old_itip.components
        newc == new_itip.components
        touched == { i \in DOMAIN newc :
                       \/ i \notin DOMAIN oldc
                       \/ AttendeeEmails(newc[i]) # AttendeeEmails(oldc[i]) }
        dropped(i) == IF i \in DOMAIN newc
                      THEN { x \in oldc[i].attendees :
                               x.email.email \notin AttendeeEmails(newc[i]) }
                      ELSE oldc[i].attendees
        cancelled == { i \in DOMAIN oldc : dropped(i) # {} }
        cancel_to == UNION { { x.email.email : x \in { y \in dropped(i) :
                                 send_update_messages(y) } } : i \in cancelled }
        request_to == UNION { { x.email.email : x \in { y \in newc[i].attendees :
                                  send_update_messages(y) } } : i \in touched }
        next_seq(i) == IF i \in DOMAIN newc
                       THEN unwrap_or_default(newc[i].sequence) + 1
                       ELSE unwrap_or_default(oldc[i].sequence) + 1
        cs == InstanceSeq(cancelled)
        ts == InstanceSeq(touched)
        cancel_msg ==
            [ to |-> cancel_to, summary |-> "Cancel",
              from |-> new_itip.organizer.email.email, from_organizer |-> TRUE,
              message |-> <<Envelope("CANCEL", Len(cs))>> \o
                  [ k \in 1..Len(cs) |->
                      [ component_type |-> oldc[cs[k]].component_type,
                        status |-> "CANCELLED", instance_id |-> cs[k],
                        sequence |-> next_seq(cs[k]),
                        organizer |-> new_itip.organizer.email.email,
                        attendees |-> { x.email.email : x \in dropped(cs[k]) },
                        component_ids |-> <<>> ] ] ]
        request_msg ==
            [ to |-> request_to, summary |-> "Invite",
              from |-> new_itip.organizer.email.email, from_organizer |-> TRUE,
              message |-> <<Envelope("REQUEST", Len(ts))>> \o
                  [ k \in 1..Len(ts) |->
                      [ component_type |-> newc[ts[k]].component_type,
                        instance_id |-> ts[k],
                        sequence |-> next_seq(ts[k]),
                        organizer |-> new_itip.organizer.email.email,
                        attendees |-> AttendeeEmails(newc[ts[k]]),
                        component_ids |-> <<>> ] ] ]
        msgs == (IF cancel_to # {} THEN <<cancel_msg>> ELSE <<>>) \o
                (IF request_to # {} THEN <<request_msg>> ELSE <<>>)
    IN  [ result |-> IF msgs # <<>> THEN Ok(msgs) ELSE Err("NothingToSend"),
          sequences |-> touched ]

LocalPartStat(comp) == { x.part_stat : x \in { y \in comp.attendees : y.email.is_local } }

OtherEmails(comp) == { x.email.email : x \in { y \in comp.attendees : ~y.email.is_local } }

\* attendee_handle_update(ical, old_itip, new_itip): a REPLY to the organizer
\* for the instances whose local participation changed; other attendees and
\* the instance set may not be changed.
attendee_handle_update(new_obj, old_itip, new_itip) ==
    LET oldc == old_itip.components
        newc == new_itip.components
        changed == { i \in DOMAIN oldc :
                       \/ i \notin DOMAIN newc /\ LocalPartStat(oldc[i]) # {}
                       \/ i \in DOMAIN newc /\ LocalPartStat(newc[i]) # LocalPartStat(oldc[i]) }
        hs == InstanceSeq(changed)
        part_stat(i) == IF i \in DOMAIN newc /\ LocalPartStat(newc[i]) # {}
                        THEN CHOOSE p \in LocalPartStat(newc[i]) : TRUE
                        ELSE "DECLINED"
        seq_of(i) == IF i \in DOMAIN newc THEN unwrap_or_default(newc[i].sequence)
                     ELSE unwrap_or_default(oldc[i].sequence)
    IN  IF \/ DOMAIN newc \ DOMAIN oldc # {}
           \/ \E i \in DOMAIN oldc \cap DOMAIN newc : OtherEmails(newc[i]) # OtherEmails(oldc[i])
        THEN Err("CannotModifyAddress")
        ELSE IF changed = {} THEN Err("NothingToSend")
        ELSE Ok(<< [ from |-> CHOOSE e \in AccountEmails : TRUE, from_organizer |-> FALSE,
                     to |-> {new_itip.organizer.email.email},
                     summary |-> [rsvp |-> part_stat(hs[1])],
                     message |-> itip_add_tz(
                         <<Envelope("REPLY", Len(hs))>> \o
                         [ k \in 1..Len(hs) |->
                             [ component_type |-> oldc[hs[k]].component_type,
                               instance_id |-> hs[k],
                               sequence |-> seq_of(hs[k]),
                               organizer |-> new_itip.organizer.email.email,
                               attendee |-> CHOOSE e \in AccountEmails : TRUE,
                               part_stat |-> part_stat(hs[k]),
                               component_ids |-> <<>> ] ],
                         new_obj.timezones) ] >>)

\* itip_finalize(ical, sequences): each requested instance has its SEQUENCE
\* incremented and its attendees' PARTSTAT reset to NEEDS-ACTION.
itip_finalize(new_obj, sequences) ==
    [ new_obj EXCEPT !.comps =
        [ i \in DOMAIN new_obj.comps |->
            IF i \in sequences
            THEN [ sequence |-> <<unwrap_or_default(new_obj.comps[i].sequence) + 1>>,
                   attendees |-> { [x EXCEPT !.part_stat = "NEEDS-ACTION"] :
                                     x \in new_obj.comps[i].attendees } ]
            ELSE new_obj.comps[i] ] ]

----------------------------------------------------------------------------
\* itip_update.

SelectWorkflow_RoleFirst(old_itip, new_itip) ==
    IF old_itip.organizer.email.is_local THEN "organizer"
    ELSE IF old_itip.organizer.email # new_itip.organizer.email THEN "OrganizerMismatch"
    ELSE "attendee"

\* The branch taken once both snapshots are built.
SelectWorkflow(old_itip, new_itip) ==
    IF old_itip.organizer.email # new_itip.organizer.email THEN "OrganizerMismatch"
    ELSE IF old_itip.organizer.email.is_local THEN "organizer"
    ELSE "attendee"

RunWorkflow_AttendeeBumps(workflow, old_obj, new_obj, old_itip, new_itip) ==
    IF workflow = "OrganizerMismatch"
    THEN [result |-> Err("OrganizerMismatch"), sequences |-> {}]
    ELSE IF workflow = "organizer"
    THEN organizer_handle_update(old_obj, new_obj, old_itip, new_itip)
    ELSE [result |-> attendee_handle_update(new_obj, old_itip, new_itip),
          sequences |-> DOMAIN new_itip.components]

\* The result of the selected branch and the content of `sequences` after
\* it: only the organizer workflow is handed `sequences`.
RunWorkflow(workflow, old_obj, new_obj, old_itip, new_itip) ==
    IF workflow = "OrganizerMismatch"
    THEN [result |-> Err("OrganizerMismatch"), sequences |-> {}]
    ELSE IF workflow = "organizer"
    THEN organizer_handle_update(old_obj, new_obj, old_itip, new_itip)
    ELSE [result |-> attendee_handle_update(new_obj, old_itip, new_itip),
          sequences |-> {}]

InspectFinalize_Always(result, new_obj, sequences) ==
    [finalized |-> TRUE, ical |-> itip_finalize(new_obj, sequences)]

\* .inspect(|_| itip_finalize(ical, &sequences)): runs on Ok only.
InspectFinalize(result, new_obj, sequences) ==
    IF result.err = ""
    THEN [finalized |-> TRUE, ical |-> itip_finalize(new_obj, sequences)]
    ELSE [finalized |-> FALSE, ical |-> new_obj]

CancelInstead_AnyRole(err, old_obj, old_itip, order) ==
    IF err \in {"NoSchedulingInfo", "NotOrganizer", "NotOrganizerNorAttendee",
                "OtherSchedulingAgent"}
    THEN [result |-> itip_cancel(old_obj, order), workflow |-> "itip_cancel"]
    ELSE [result |-> Err(err), workflow |-> "none"]

\* The Err(err) arm of the match on the new object's snapshot.
CancelInstead(err, old_obj, old_itip, order) ==
    IF err \in {"NoSchedulingInfo", "NotOrganizer", "NotOrganizerNorAttendee",
                "OtherSchedulingAgent"}
    THEN IF old_itip.organizer.email.is_local
         THEN [result |-> itip_cancel(old_obj, order), workflow |-> "itip_cancel"]
         ELSE [result |-> Err("CannotModifyAddress"), workflow |-> "none"]
    ELSE [result |-> Err(err), workflow |-> "none"]

\* itip_update(ical, old_ical, account_emails): the result, the new object
\* as the call leaves it, and which steps ran.
itip_update(new_obj, old_obj, order) ==
    LET old_itip == itip_snapshot(old_obj) IN
    IF old_itip.err # ""
    THEN [ result |-> Err(old_itip.err), ical |-> new_obj, old_ical |-> old_obj,
           new_examined |-> FALSE, workflow |-> "none", finalized |-> FALSE,
           sequences |-> {} ]
    ELSE LET new_itip == itip_snapshot(new_obj) IN
         IF new_itip.err = ""
         THEN LET workflow == SelectWorkflow(old_itip, new_itip)
                  out == RunWorkflow(workflow, old_obj, new_obj, old_itip, new_itip)
                  fin == InspectFinalize(out.result, new_obj, out.sequences)
              IN [ result |-> out.result, ical |-> fin.ical, old_ical |-> old_obj,
                   new_examined |-> TRUE,
                   workflow |-> IF workflow = "OrganizerMismatch" THEN "none" ELSE workflow,
                   finalized |-> fin.finalized, sequences |-> out.sequences ]
         ELSE LET out == CancelInstead(new_itip.err, old_obj, old_itip, order)
              IN [ result |-> out.result, ical |-> new_obj, old_ical |-> old_obj,
                   new_examined |-> TRUE, workflow |-> out.workflow,
                   finalized |-> FALSE, sequences |-> {} ]

----------------------------------------------------------------------------
\* The state machine.

\* The instances a payload component of an organizer's message touches: its
\* own instance, or every instance of the object when it names none.
Touches(c, obj) ==
    IF "instance_id" \in DOMAIN c THEN {c.instance_id} ELSE DOMAIN obj.comps

\* The SEQUENCE values the organizer's messages of one result carry for
\* instance i.
EmittedFor(result, obj, i) ==
    { result.msgs[m].message[k].sequence :
        <<m, k>> \in { p \in (DOMAIN result.msgs) \X (1..4) :
                        /\ result.msgs[p[1]].from_organizer
                        /\ p[2] \in DOMAIN result.msgs[p[1]].message
                        /\ "sequence" \in DOMAIN result.msgs[p[1]].message[p[2]]
                        /\ i \in Touches(result.msgs[p[1]].message[p[2]], obj) } }

Max(S) == CHOOSE x \in S : \A y \in S : y <= x

Log(result, obj) ==
    [ i \in InstanceIds |->
        IF EmittedFor(result, obj, i) = {} THEN emitted[i]
        ELSE Append(emitted[i], Max(EmittedFor(result, obj, i))) ]

Init ==
    /\ old_ical \in Objects
    /\ ical = old_ical
    /\ last = [ op |-> "none", old |-> old_ical, input |-> old_ical, result |-> Err(""),
                new_examined |-> FALSE, workflow |-> "none", finalized |-> FALSE,
                sequences |-> {}, order |-> <<>> ]
    /\ emitted = [i \in InstanceIds |-> <<>>]
    /\ pc = "idle"
    /\ ops = 0

\* The stored object is deleted: itip_cancel(old_ical, account_emails).
ItipCancel ==
    /\ pc = "idle"
    /\ \E order \in Orders(DOMAIN old_ical.comps) :
         LET r == itip_cancel(old_ical, order) IN
         /\ last' = [ op |-> "cancel", old |-> old_ical, input |-> old_ical, result |-> r,
                      new_examined |-> FALSE, workflow |-> "itip_cancel",
                      finalized |-> FALSE, sequences |-> {}, order |-> order ]
         /\ emitted' = Log(r, old_ical)
    /\ pc' = "done"
    /\ ops' = ops + 1
    /\ UNCHANGED <<old_ical, ical>>

\* The stored object is replaced: itip_update(new, old_ical, account_emails).
ItipUpdate ==
    /\ pc = "idle"
    /\ \E new \in Variants(old_ical), order \in Orders(DOMAIN old_ical.comps) :
         LET u == itip_update(new, old_ical, order) IN
         /\ last' = [ op |-> "update", old |-> old_ical, input |-> new,
                      result |-> u.result, new_examined |-> u.new_examined,
                      workflow |-> u.workflow, finalized |-> u.finalized,
                      sequences |-> u.sequences,
                      order |-> IF u.workflow = "itip_cancel" THEN order ELSE <<>> ]
         /\ ical' = u.ical
         /\ old_ical' = u.old_ical
         /\ emitted' = Log(u.result, IF u.workflow = "itip_cancel" THEN old_ical ELSE new)
    /\ pc' = "done"
    /\ ops' = ops + 1

Next == ItipCancel \/ ItipUpdate

\* One operation applied to one stored object.
Spec == Init /\ [][Next]_vars

\* The objects of an organizer's recurring event with one remote attendee.
SeqObjects ==
    { MkObject(Plain(<<"a@local">>), c) :
        c \in [ {"Main", "R1"} ->
                [ sequence : OptSequences,
                  attendees : { { [email |-> "b@remote", rsvp |-> TRUE,
                                   part_stat |-> "NEEDS-ACTION"] } } ] ] }

InitSeq ==
    /\ old_ical \in SeqObjects
    /\ ical = old_ical
    /\ last = [ op |-> "none", old |-> old_ical, input |-> old_ical, result |-> Err(""),
                new_examined |-> FALSE, workflow |-> "none", finalized |-> FALSE,
                sequences |-> {}, order |-> <<>> ]
    /\ emitted = [i \in InstanceIds |-> <<>>]
    /\ pc = "idle"
    /\ ops = 0

\* The caller keeps the new revision when itip_update succeeded, and the
\* stored object otherwise; the next operation is applied to what is stored.
Store ==
    /\ pc = "done"
    /\ ops < MaxOps
    /\ old_ical' = IF last.op = "update" /\ last.result.err = "" THEN ical ELSE old_ical
    /\ ical' = old_ical'
    /\ pc' = "idle"
    /\ UNCHANGED <<last, emitted, ops>>

NextSeq == ItipCancel \/ ItipUpdate \/ Store

\* Up to MaxOps operations applied in a row to one stored object.
SpecSeq == InitSeq /\ [][NextSeq]_vars

----------------------------------------------------------------------------
\* Properties.

CancelDone == pc = "done" /\ last.op = "cancel"

UpdateDone == pc = "done" /\ last.op = "update"

\* The object's own organizer is a local account address and the object is
\* one the snapshot builder accepts.
LocalOrganizer(o) ==
    /\ itip_snapshot(o).err = ""
    /\ o.organizer[1] \in AccountEmails

RemoteOrganizer(o) ==
    /\ itip_snapshot(o).err = ""
    /\ o.organizer[1] \notin AccountEmails

\* The attendee lines of all instances of an object.
UnionAttendees(o) == UNION { o.comps[i].attendees : i \in DOMAIN o.comps }

\* C1: with a local organizer, itip_cancel returns NothingToSend when the
\* component type is VFREEBUSY or no attendee takes update messages, and in
\* every other case exactly one message whose envelope METHOD is CANCEL,
\* with recipients and with no VFREEBUSY component.
C1_CancelOrNothingToSend ==
    (CancelDone /\ LocalOrganizer(last.input)) =>
        IF \/ last.input.component_type = "VFreebusy"
           \/ { x \in UnionAttendees(last.input) : x.rsvp } = {}
        THEN last.result = Err("NothingToSend")
        ELSE /\ last.result.err = ""
             /\ Len(last.result.msgs) = 1
             /\ last.result.msgs[1].message[1].method = "CANCEL"
             /\ last.result.msgs[1].to # {}
             /\ \A k \in DOMAIN last.result.msgs[1].message :
                    last.result.msgs[1].message[k].component_type # "VFreebusy"

\* C1 witness: a VFREEBUSY object of a local organizer with an attendee who
\* takes updates was cancelled and nothing was sent.
C1_Witness ==
    /\ CancelDone
    /\ LocalOrganizer(last.input)
    /\ last.input.component_type = "VFreebusy"
    /\ \E x \in UnionAttendees(last.input) : x.rsvp
    /\ last.result = Err("NothingToSend")

C3_EmittedSequencesIncrease ==
    \A i \in InstanceIds :
        \A k \in 1..(Len(emitted[i]) - 1) : emitted[i][k] < emitted[i][k + 1]

\* C4: when both snapshots are built and the organizer addresses differ,
\* itip_update returns OrganizerMismatch: no workflow runs, no message is
\* emitted, the finalizer is not applied and the new object is unchanged.
C4_OrganizerMismatch ==
    ( /\ UpdateDone
      /\ itip_snapshot(last.old).err = ""
      /\ itip_snapshot(last.input).err = ""
      /\ last.old.organizer # last.input.organizer ) =>
        /\ last.result = Err("OrganizerMismatch")
        /\ last.workflow = "none"
        /\ ~last.finalized
        /\ ical = last.input

\* C4 witness: a local organizer's object was resubmitted with a remote
\* organizer and a local attendee, and the update was refused.
C4_Witness ==
    /\ UpdateDone
    /\ LocalOrganizer(last.old)
    /\ RemoteOrganizer(last.input)
    /\ last.result.err = "OrganizerMismatch"

\* C5: itip_update never changes the old object; it leaves the new object as
\* passed whenever it returns an error, and otherwise changes it only as
\* the finalizer does for the requested sequences.
C5_NewChangedByFinalizerOnly ==
    UpdateDone =>
        /\ old_ical = last.old
        /\ last.result.err # "" => (ical = last.input /\ ~last.finalized)
        /\ ical # last.input =>
               (last.finalized /\ ical = itip_finalize(last.input, last.sequences))

\* C5 witness: the organizer workflow asked for a sequence bump and then
\* failed with NothingToSend, and the new object is as it was passed.
C5_Witness ==
    /\ UpdateDone
    /\ last.workflow = "organizer"
    /\ last.sequences # {}
    /\ last.result.err = "NothingToSend"
    /\ ical = last.input

\* The object itip_cancel was called on.
Cancelled == IF last.op = "cancel" THEN last.input ELSE last.old

\* C6: in every message itip_cancel returns, from_organizer is true exactly
\* when `from` is the organizer's address; the organizer's CANCEL is from the
\* organizer, the attendee's REPLY is from a local address that is not the
\* organizer's.
C6_FromOrganizerIffFromIsOrganizer ==
    (pc = "done" /\ last.workflow = "itip_cancel") =>
        \A m \in DOMAIN last.result.msgs :
            LET msg == last.result.msgs[m] IN
            /\ msg.from_organizer <=> (msg.from = Cancelled.organizer[1])
            /\ Cancelled.organizer[1] \in AccountEmails =>
                   (msg.from_organizer /\ msg.from = Cancelled.organizer[1])
            /\ Cancelled.organizer[1] \notin AccountEmails =>
                   /\ ~msg.from_organizer
                   /\ msg.from \in AccountEmails
                   /\ msg.from \in { x.email : x \in UnionAttendees(Cancelled) }

\* C6 witness: itip_cancel returned an organizer's CANCEL.
C6_Witness ==
    /\ CancelDone
    /\ last.result.err = ""
    /\ last.result.msgs[1].from_organizer
    /\ last.result.msgs[1].from = last.input.organizer[1]

\* An object with a remote organizer that is sound but for the local role:
\* well formed, server scheduled, with a main component and attendees.
RemoteOrganized(o) ==
    /\ o.wellformed
    /\ o.schedule_agent = "SERVER"
    /\ "Main" \in DOMAIN o.comps
    /\ UnionAttendees(o) # {}
    /\ o.organizer # <<>>
    /\ o.organizer[1] \notin AccountEmails

LocallyAttended(o) ==
    { i \in DOMAIN o.comps : \E x \in o.comps[i].attendees : x.email \in AccountEmails }

\* The single REPLY of an attendee's deletion: one DECLINED component for
\* each instance with a local attendee and for no other, from a local
\* attendee, to recipients that include the organizer.
DeclineReply(o, result) ==
    /\ result.err = ""
    /\ Len(result.msgs) = 1
    /\ LET msg == result.msgs[1]
           declines == { k \in DOMAIN msg.message :
                           "part_stat" \in DOMAIN msg.message[k] }
       IN /\ msg.message[1].method = "REPLY"
          /\ \A k \in declines : msg.message[k].part_stat = "DECLINED"
          /\ { msg.message[k].instance_id : k \in declines } = LocallyAttended(o)
          /\ Cardinality(declines) = Cardinality(LocallyAttended(o))
          /\ msg.from \in AccountEmails
          /\ msg.from \in { x.email : x \in UnionAttendees(o) }
          /\ o.organizer[1] \in msg.to

\* C7 as stated: with a remote organizer itip_cancel returns that REPLY,
\* and NothingToSend when no instance has a local attendee.
C7_DeclineOrNothingToSend ==
    (CancelDone /\ RemoteOrganized(last.input)) =>
        IF LocallyAttended(last.input) = {}
        THEN last.result = Err("NothingToSend")
        ELSE DeclineReply(last.input, last.result)

\* C7 amended: with a remote organizer itip_cancel returns that REPLY; when
\* no instance has a local attendee no snapshot is built and it returns
\* NotOrganizerNorAttendee.
C7_DeclineOrNotAttendee ==
    (CancelDone /\ RemoteOrganized(last.input)) =>
        IF LocallyAttended(last.input) = {}
        THEN last.result = Err("NotOrganizerNorAttendee")
        ELSE DeclineReply(last.input, last.result)

\* C7 witness: the object had a local attendee in the override and none in
\* the main component, and one decline was sent.
C7_Witness ==
    /\ CancelDone
    /\ RemoteOrganized(last.input)
    /\ LocallyAttended(last.input) = {"R1"}
    /\ last.result.err = ""
    /\ Len(last.result.msgs[1].message) = 2

\* C8: with a remote organizer in the old object, itip_update requests no
\* sequence bump and leaves every SEQUENCE of the new object, and the new
\* object, as passed.
C8_AttendeeKeepsSequences ==
    (UpdateDone /\ RemoteOrganizer(last.old)) =>
        /\ last.sequences = {}
        /\ DOMAIN ical.comps = DOMAIN last.input.comps
        /\ \A i \in DOMAIN ical.comps :
               ical.comps[i].sequence = last.input.comps[i].sequence
        /\ ical = last.input

\* C8 witness: the attendee workflow emitted a REPLY and the finalizer ran.
C8_Witness ==
    /\ UpdateDone
    /\ RemoteOrganizer(last.old)
    /\ last.workflow = "attendee"
    /\ last.result.err = ""
    /\ last.result.msgs[1].message[1].method = "REPLY"
    /\ last.finalized

CancelInsteadErrors ==
    {"NoSchedulingInfo", "NotOrganizer", "NotOrganizerNorAttendee", "OtherSchedulingAgent"}

\* C9: an old-snapshot error is returned before the new object is examined;
\* a new-snapshot error of the four kinds gives itip_cancel's outcome on the
\* old object (one CANCEL, or its error) for a local old organizer and
\* CannotModifyAddress otherwise; any other new-snapshot error is returned.
C9_NewSnapshotErrors ==
    UpdateDone =>
        LET olds == itip_snapshot(last.old)
            news == itip_snapshot(last.input)
        IN  IF olds.err # ""
            THEN last.result = Err(olds.err) /\ ~last.new_examined
            ELSE /\ last.new_examined
                 /\ news.err \in CancelInsteadErrors =>
                        IF last.old.organizer[1] \in AccountEmails
                        THEN /\ \E order \in Orders(DOMAIN last.old.comps) :
                                    last.result = itip_cancel(last.old, order)
                             /\ \/ last.result.err = "NothingToSend"
                                \/ /\ last.result.err = ""
                                   /\ Len(last.result.msgs) = 1
                                   /\ last.result.msgs[1].message[1].method = "CANCEL"
                        ELSE last.result = Err("CannotModifyAddress")
                 /\ news.err \notin (CancelInsteadErrors \cup {""}) =>
                        last.result = Err(news.err)

\* C9 witness: the new revision of a local organizer's object lost its
\* scheduling information and a CANCEL of the old object was returned.
C9_Witness ==
    /\ UpdateDone
    /\ LocalOrganizer(last.old)
    /\ itip_snapshot(last.input).err = "NoSchedulingInfo"
    /\ last.result.err = ""
    /\ last.result.msgs[1].message[1].method = "CANCEL"

\* C10 as stated: the SEQUENCE of the organizer's CANCEL is greater than the
\* SEQUENCE of every instance of the cancelled object.
C10_CancelSequenceAboveAllInstances ==
    (CancelDone /\ LocalOrganizer(last.input) /\ last.result.err = "") =>
        \A i \in DOMAIN last.input.comps :
            last.result.msgs[1].message[2].sequence >
                unwrap_or_default(last.input.comps[i].sequence)

\* A CANCEL component or a decline component of a message body.
IsCancelOrDecline(c) ==
    \/ "status" \in DOMAIN c /\ c.status = "CANCELLED"
    \/ "part_stat" \in DOMAIN c /\ c.part_stat = "DECLINED"

\* The instances with a local attendee, in the order the loop met them.
DeclinedInOrder(o, order) ==
    SelectSeq(order, LAMBDA i : i \in LocallyAttended(o))

\* C11: in every message itip_cancel returns, component 0 is the envelope
\* with METHOD; each child reference is above 0 and below the number of
\* components, none is repeated, and every CANCEL or decline component is
\* referenced.  The organizer's CANCEL has two components and references
\* index 1; in the attendee's REPLY the declines are at indices 1..n in the
\* order produced and what is appended after them is not referenced.
C11_EnvelopeReferences ==
    (pc = "done" /\ last.workflow = "itip_cancel") =>
        \A m \in DOMAIN last.result.msgs :
            LET msg == last.result.msgs[m]
                body == msg.message
                ids == body[1].component_ids
                produced == DeclinedInOrder(Cancelled, last.order)
            IN  /\ body[1].component_type = "VCalendar"
                /\ "method" \in DOMAIN body[1]
                /\ \A k \in DOMAIN ids : ids[k] > 0 /\ ids[k] < Len(body)
                /\ \A j, k \in DOMAIN ids : ids[j] = ids[k] => j = k
                /\ \A c \in 1..(Len(body) - 1) :
                       IsCancelOrDecline(body[c + 1]) => \E k \in DOMAIN ids : ids[k] = c
                /\ msg.from_organizer =>
                       /\ body[1].method = "CANCEL"
                       /\ Len(body) = 2
                       /\ ids = <<1>>
                       /\ IsCancelOrDecline(body[2])
                /\ ~msg.from_organizer =>
                       /\ body[1].method = "REPLY"
                       /\ ids = [k \in 1..Len(produced) |-> k]
                       /\ Len(body) = 1 + Len(produced) + Len(Cancelled.timezones)
                       /\ \A k \in 1..Len(produced) :
                              /\ IsCancelOrDecline(body[k + 1])
                              /\ body[k + 1].instance_id = produced[k]
                       /\ \A c \in (Len(produced) + 1)..(Len(body) - 1) :
                              body[c + 1].component_type = "VTimezone"

\* C11 witness: a REPLY declining the override first and the main component
\* second, with a time zone appended after the two declines.
C11_Witness ==
    /\ CancelDone
    /\ last.result.err = ""
    /\ ~last.result.msgs[1].from_organizer
    /\ last.order = <<"R1", "Main">>
    /\ Len(last.result.msgs[1].message) = 4
    /\ last.result.msgs[1].message[1].component_ids = <<1, 2>>
    /\ last.result.msgs[1].message[2].instance_id = "R1"
    /\ last.result.msgs[1].message[4].component_type = "VTimezone"

====
